---------------------------- MODULE Spec2Model ----------------------------
(***************************************************************************)
(* Model of the xCore persistence core.                                    *)
(*                                                                         *)
(*   Spec         Blockchain (main.rs): one add_block writer, concurrent   *)
(*                get_chain_tip / get_block readers, the rotating          *)
(*                flat-file store and the location index.                  *)
(*   SpecStorage  Storage (storage.rs) used directly through its public    *)
(*                store / retrieve / delete API.                           *)
(*   SpecPool     Mempool (mempool.rs).                                    *)
(*   SpecDifficulty  Difficulty and adjust_difficulty (difficulty.rs),     *)
(*                built with and without overflow checks.                  *)
(*                                                                         *)
(* I/O faults are injected on the write path of add_block (serialize,      *)
(* open, frame header, frame data, frame end, index put).  The read path   *)
(* is what a read that completes returns.                                  *)
(***************************************************************************)
EXTENDS Integers, Sequences, FiniteSets, TLC

(***************************************************************************)
(* Bounds                                                                  *)
(***************************************************************************)
\* number of add_block calls the writer makes
MaxCalls == 3

\* configured values of max_block_file_size the model is run with
MaxBlockFileSizes == {8, 20}

\* reader tasks
Readers == {"r1"}

(***************************************************************************)
(* Blocks, bincode, blake3                                                 *)
(***************************************************************************)
\* struct Block { header: BlockHeader, transactions: Vec<Transaction> }
MkBlock(prev, root, ts, nonce, txs) ==
    [header |-> [previous_hash |-> prev, merkle_root |-> root,
                 timestamp |-> ts, nonce |-> nonce],
     transactions |-> txs]

\* the blocks handed to add_block; a transaction is one word of payload
Blocks == { MkBlock(0, 0, 1, 0, <<>>),
            MkBlock(0, 2, 2, 1, <<7, 9>>) }

\* bincode::serialize(&block): the header fields in order, then the Vec as a
\* length prefix followed by its elements
SerializeBlock(b) ==
    << b.header.previous_hash, b.header.merkle_root,
       b.header.timestamp, b.header.nonce, Len(b.transactions) >>
    \o b.transactions

\* bincode::deserialize::<Block>: reads the fields front to back, fails when
\* the input ends early, ignores trailing bytes
DeserializeBlock(bytes) ==
    IF Len(bytes) < 5 THEN [ok |-> FALSE]
    ELSE IF Len(bytes) < 5 + bytes[5] THEN [ok |-> FALSE]
    ELSE [ok |-> TRUE,
          block |-> MkBlock(bytes[1], bytes[2], bytes[3], bytes[4],
                            SubSeq(bytes, 6, 5 + bytes[5]))]

\* blake3::hash(data).into(): collision free, the digest stands for its input
BlockHashOf(data) == << 1, data >>

\* [0; 32]
ZeroHash == << 0, <<>> >>


\* the 32-byte keys the index is asked for: the hash of every block, and the
\* all-zero key (the genesis sentinel, main.rs:134; the key of storage.rs:99)
Keys == { BlockHashOf(SerializeBlock(b)) : b \in Blocks } \cup { ZeroHash }

(***************************************************************************)
(* BlockLocation and its bincode encoding                                  *)
(***************************************************************************)
\* blocks_dir.join(format!("block_file_{}.dat.lz4", index)); the directory is
\* the same for every file and is left out of the name
FileName(index) == << "block_file_", index, ".dat.lz4" >>

\* struct BlockLocation { file_name: String, byte_offset: u64 }
MkLocation(name, offset) == [file_name |-> name, byte_offset |-> offset]

\* bincode::serialize(location): the String as length prefix and content,
\* then the u64
SerializeLocation(loc) ==
    << Len(loc.file_name) >> \o loc.file_name \o << loc.byte_offset >>

\* bincode::deserialize::<BlockLocation>
DeserializeLocation(bytes) ==
    IF Len(bytes) < 1 THEN [ok |-> FALSE]
    ELSE IF Len(bytes) < bytes[1] + 2 THEN [ok |-> FALSE]
    ELSE [ok |-> TRUE,
          location |-> MkLocation(SubSeq(bytes, 2, bytes[1] + 1),
                                  bytes[bytes[1] + 2])]

(***************************************************************************)
(* The key-value store behind Storage (rocksdb put / get / delete)         *)
(***************************************************************************)
DbPut(d, key, value) ==
    [k \in DOMAIN d \cup {key} |-> IF k = key THEN value ELSE d[k]]

DbDelete(d, key) == [k \in DOMAIN d \ {key} |-> d[k]]

\* db.get(key): Some(bytes) or None
DbGet(d, key) ==
    IF key \in DOMAIN d THEN [some |-> TRUE, bytes |-> d[key]]
    ELSE [some |-> FALSE]

\* Storage::retrieve_block_location on a store d:
\*   Ok(Some(location)) | Ok(None) | Err (the stored bytes do not decode)
RetrieveBlockLocation(d, key) ==
    LET got == DbGet(d, key) IN
    IF ~got.some THEN [kind |-> "none"]
    ELSE LET dec == DeserializeLocation(got.bytes) IN
         IF dec.ok THEN [kind |-> "some", location |-> dec.location]
         ELSE [kind |-> "err"]

(***************************************************************************)
(* LZ4 frames in the flat files                                            *)
(***************************************************************************)
\* first word of a frame, written by EncoderBuilder::build
LZ4Magic == 77

\* last word of a frame, written by Encoder::finish
LZ4EndMark == 99

\* the data block of a frame, written by write_all: its size, then the bytes
FrameBlock(data) == << Len(data) >> \o data

\* a complete frame
Frame(data) == << LZ4Magic >> \o FrameBlock(data) \o << LZ4EndMark >>

\* mutant: the decoder does not stop at the end mark and returns everything
\* that follows the frame's size word up to the end of the file
DecodeFrameAtToEof(bytes, byte_offset) ==
    LET p == byte_offset + 1 IN
    IF p > Len(bytes) THEN [ok |-> TRUE, data |-> <<>>]
    ELSE IF bytes[p] # LZ4Magic THEN [ok |-> FALSE]
    ELSE [ok |-> TRUE, data |-> SubSeq(bytes, p + 2, Len(bytes))]

\* lz4::Decoder over the file positioned at byte_offset, read_to_end: decodes
\* the one frame that starts there and stops at its end mark.  A file that ends
\* inside the frame ends the read with what was decoded; anything but a frame
\* at the offset is an error.
DecodeFrameAt(bytes, byte_offset) ==
    LET p == byte_offset + 1 IN
    IF p > Len(bytes) THEN [ok |-> TRUE, data |-> <<>>]
    ELSE IF bytes[p] # LZ4Magic THEN [ok |-> FALSE]
    ELSE IF p + 1 > Len(bytes) THEN [ok |-> TRUE, data |-> <<>>]
    ELSE LET n == bytes[p + 1] IN
         IF p + 2 + n > Len(bytes)
         THEN [ok |-> TRUE, data |-> SubSeq(bytes, p + 2, Len(bytes))]
         ELSE IF bytes[p + 2 + n] # LZ4EndMark THEN [ok |-> FALSE]
         ELSE [ok |-> TRUE, data |-> SubSeq(bytes, p + 2, p + 1 + n)]

\* BlockStorage::read_block_from_file on the files fs
ReadBlockFromFile(fs, location) ==
    IF location.file_name \notin DOMAIN fs THEN [ok |-> FALSE]
    ELSE DecodeFrameAt(fs[location.file_name], location.byte_offset)

\* Blockchain::get_block on index d and files fs:
\*   Ok(Some(block)) | Ok(None) | Err
GetBlock(d, fs, block_hash) ==
    LET found == RetrieveBlockLocation(d, block_hash) IN
    IF found.kind = "none" THEN [kind |-> "none"]
    ELSE IF found.kind = "err" THEN [kind |-> "err"]
    ELSE LET rd == ReadBlockFromFile(fs, found.location) IN
         IF ~rd.ok THEN [kind |-> "err"]
         ELSE LET dec == DeserializeBlock(rd.data) IN
              IF dec.ok THEN [kind |-> "some", block |-> dec.block]
              ELSE [kind |-> "err"]

\* mutant: rotates only once the tracked size is above the maximum
DetermineTargetFileStrict(index, size, max) ==
    IF size > max THEN [index |-> index + 1, size |-> 0]
    ELSE [index |-> index, size |-> size]

\* BlockStorage::determine_target_file on the two counters
DetermineTargetFile(index, size, max) ==
    IF size >= max THEN [index |-> index + 1, size |-> 0]
    ELSE [index |-> index, size |-> size]

\* the file after appending bytes to it (created when missing)
FileAppend(fs, name, bytes) ==
    [f \in DOMAIN fs \cup {name} |->
        IF f = name THEN (IF name \in DOMAIN fs THEN fs[name] ELSE <<>>) \o bytes
        ELSE fs[f]]

FileLen(fs, name) == IF name \in DOMAIN fs THEN Len(fs[name]) ELSE 0


\* the clock (Instant) counts half seconds, so that two readings can differ by
\* less than the second a Duration::from_secs counts
TicksPerSecond == 2

\* Duration::from_secs
FromSecs(secs) == secs * TicksPerSecond

(***************************************************************************)
(* State                                                                   *)
(***************************************************************************)
VARIABLES
    chain_tip,            \* Blockchain.chain_tip, the value behind the RwLock
    lock,                 \* the RwLock: [writer: held exclusively, readers: count]
    db,                   \* Storage.db: key -> serialized BlockLocation
    files,                \* the blocks directory: file name -> bytes
    current_file_index,   \* BlockStorage.current_file_index
    current_file_size,    \* BlockStorage.current_file_size
    max_block_file_size,  \* BlockchainConfig.max_block_file_size
    w,                    \* the add_block task: position and locals
    rd,                   \* the reader tasks: position and locals
    hist,                 \* history: calls made, tip at call, appends, blocks added
    st,                   \* direct use of Storage: operations so far, last result
    transaction_merkle_tree, \* Mempool fields, mempool.rs:36-46
    fruit_merkle_tree,
    transactions,
    fruits,
    transaction_queue,
    fruit_queue,
    size_limit_bytes,
    current_size_bytes,
    transaction_timeout,
    fruit_timeout,
    last_cleanup,
    now,                  \* the monotonic clock read by Instant::now()
    pres,                 \* the last Mempool call and what it returned
    difficulty            \* the Difficulty computation under way, difficulty.rs

chainVars == << chain_tip, lock, db, files, current_file_index,
                current_file_size, max_block_file_size, w, rd, hist >>

poolVars == << transaction_merkle_tree, fruit_merkle_tree, transactions, fruits,
               transaction_queue, fruit_queue, size_limit_bytes,
               current_size_bytes, transaction_timeout, fruit_timeout,
               last_cleanup, now, pres >>

\* what the Blockchain actions leave alone
otherVars == << st, poolVars, difficulty >>

vars == << chainVars, st, poolVars, difficulty >>

WIdle == [pc |-> "idle", hash |-> ZeroHash, data |-> <<>>,
          file |-> <<>>, offset |-> 0]

RIdle == [pc |-> "idle", key |-> ZeroHash, tip |-> ZeroHash,
          res |-> [kind |-> "unset"], location |-> MkLocation(<<>>, 0),
          missed |-> FALSE, read |-> FALSE]

\* Blockchain::new, BlockStorage::new on an empty directory and an empty index
ChainNew(max_size) ==
    /\ chain_tip = ZeroHash
    /\ lock = [writer |-> FALSE, readers |-> 0]
    /\ db = << >>
    /\ files = << >>
    /\ current_file_index = 1
    /\ current_file_size = 0
    /\ max_block_file_size = max_size
    /\ w = WIdle
    /\ rd = [r \in Readers |-> RIdle]
    /\ hist = [calls |-> 0, tip_at_call |-> ZeroHash, result |-> "none",
               failed_at |-> "none", log |-> <<>>, added |-> {}]

\* Mempool::new, mempool.rs:50-64; a MerkleTree is its committed leaves and
\* the leaves inserted since the last commit
PoolNew(size_limit_mb, transaction_timeout_secs, fruit_timeout_secs) ==
    /\ transaction_merkle_tree = [leaves |-> <<>>, uncommitted |-> <<>>]
    /\ fruit_merkle_tree = [leaves |-> <<>>, uncommitted |-> <<>>]
    /\ transactions = << >>
    /\ fruits = << >>
    /\ transaction_queue = << >>
    /\ fruit_queue = << >>
    /\ size_limit_bytes = size_limit_mb * 1024 * 1024
    /\ current_size_bytes = 0
    /\ transaction_timeout = FromSecs(transaction_timeout_secs)
    /\ fruit_timeout = FromSecs(fruit_timeout_secs)
    /\ last_cleanup = 0
    /\ now = 0
    /\ pres = [op |-> "new", arg |-> << >>, result |-> "Ok", n |-> 0]

\* no Storage call made yet
StorageNew == st = [ops |-> <<>>, res |-> [kind |-> "unset"]]

\* no Difficulty function called yet; overflow_checks is the setting the crate
\* is built with (on in a debug build, off in a release build)
DifficultyIdle(overflow_checks) ==
    difficulty = [overflow_checks |-> overflow_checks,
                  prev |-> [kind |-> "none"], cur |-> [kind |-> "none"],
                  overflowed |-> FALSE, trace |-> <<>>]

(***************************************************************************)
(* Blockchain::add_block, one action per step and per way the step fails   *)
(***************************************************************************)
\* the call returns Err from step `at`
ReturnErr(at) ==
    /\ w' = WIdle
    /\ hist' = [hist EXCEPT !.result = "err", !.failed_at = at]

\* mutant: the tip is overwritten first, before the block is stored
AddBlockBeginTipFirst(block) ==
    /\ w.pc = "idle"
    /\ hist.calls < MaxCalls
    /\ w' = [WIdle EXCEPT !.pc = "append",
                          !.data = SerializeBlock(block),
                          !.hash = BlockHashOf(SerializeBlock(block))]
    /\ chain_tip' = BlockHashOf(SerializeBlock(block))
    /\ hist' = [hist EXCEPT !.calls = @ + 1, !.tip_at_call = chain_tip',
                            !.result = "pending", !.failed_at = "none"]
    /\ UNCHANGED otherVars
    /\ UNCHANGED << lock, db, files, current_file_index,
                    current_file_size, max_block_file_size, rd >>

\* main.rs:143-144  serialize and hash
AddBlockBegin(block) ==
    /\ w.pc = "idle"
    /\ hist.calls < MaxCalls
    /\ w' = [WIdle EXCEPT !.pc = "append",
                          !.data = SerializeBlock(block),
                          !.hash = BlockHashOf(SerializeBlock(block))]
    /\ hist' = [hist EXCEPT !.calls = @ + 1, !.tip_at_call = chain_tip,
                            !.result = "pending", !.failed_at = "none"]
    /\ UNCHANGED otherVars
    /\ UNCHANGED << chain_tip, lock, db, files, current_file_index,
                    current_file_size, max_block_file_size, rd >>

\* main.rs:143  bincode::serialize(&block)? fails
AddBlockSerializeErr ==
    /\ w.pc = "idle"
    /\ hist.calls < MaxCalls
    /\ w' = WIdle
    /\ hist' = [hist EXCEPT !.calls = @ + 1, !.tip_at_call = chain_tip,
                            !.result = "err", !.failed_at = "serialize"]
    /\ UNCHANGED otherVars
    /\ UNCHANGED << chain_tip, lock, db, files, current_file_index,
                    current_file_size, max_block_file_size, rd >>

\* mutant: the offset recorded is the tracked size of the active file, not the
\* position the seek to the end returns
AppendOpenTrackedOffset ==
    /\ w.pc = "append"
    /\ LET t == DetermineTargetFile(current_file_index, current_file_size,
                                    max_block_file_size)
           name == FileName(t.index)
       IN /\ current_file_index' = t.index
          /\ current_file_size' = t.size
          /\ files' = FileAppend(files, name, <<>>)
          /\ w' = [w EXCEPT !.pc = "build", !.file = name, !.offset = t.size]
          /\ hist' = [hist EXCEPT !.log = Append(@,
                        [index_before |-> current_file_index,
                         size_before |-> current_file_size,
                         index |-> t.index, size |-> t.size,
                         file |-> name, len_before |-> FileLen(files, name),
                         hash |-> w.hash, done |-> FALSE])]
    /\ UNCHANGED otherVars
    /\ UNCHANGED << chain_tip, lock, db, max_block_file_size, rd >>

\* main.rs:89-95  determine_target_file, open in append mode, seek to the end
AppendOpen ==
    /\ w.pc = "append"
    /\ LET t == DetermineTargetFile(current_file_index, current_file_size,
                                    max_block_file_size)
           name == FileName(t.index)
       IN /\ current_file_index' = t.index
          /\ current_file_size' = t.size
          /\ files' = FileAppend(files, name, <<>>)
          /\ w' = [w EXCEPT !.pc = "build", !.file = name,
                            !.offset = FileLen(files, name)]
          /\ hist' = [hist EXCEPT !.log = Append(@,
                        [index_before |-> current_file_index,
                         size_before |-> current_file_size,
                         index |-> t.index, size |-> t.size,
                         file |-> name, len_before |-> FileLen(files, name),
                         hash |-> w.hash, done |-> FALSE])]
    /\ UNCHANGED otherVars
    /\ UNCHANGED << chain_tip, lock, db, max_block_file_size, rd >>

\* main.rs:89-95  the counters are already advanced when open or seek fails
AppendOpenErr ==
    /\ w.pc = "append"
    /\ LET t == DetermineTargetFile(current_file_index, current_file_size,
                                    max_block_file_size)
       IN /\ current_file_index' = t.index
          /\ current_file_size' = t.size
    /\ ReturnErr("open")
    /\ UNCHANGED otherVars
    /\ UNCHANGED << chain_tip, lock, db, files, max_block_file_size, rd >>

\* main.rs:97-99  EncoderBuilder::build writes the frame header
AppendBuild ==
    /\ w.pc = "build"
    /\ files' = FileAppend(files, w.file, << LZ4Magic >>)
    /\ w' = [w EXCEPT !.pc = "write"]
    /\ UNCHANGED otherVars
    /\ UNCHANGED << chain_tip, lock, db, current_file_index, current_file_size,
                    max_block_file_size, rd, hist >>

\* main.rs:99  build(&mut file)? fails, nothing written
AppendBuildErr ==
    /\ w.pc = "build"
    /\ ReturnErr("build")
    /\ UNCHANGED otherVars
    /\ UNCHANGED << chain_tip, lock, db, files, current_file_index,
                    current_file_size, max_block_file_size, rd >>

\* main.rs:100  encoder.write_all(block_data)
AppendWrite ==
    /\ w.pc = "write"
    /\ files' = FileAppend(files, w.file, FrameBlock(w.data))
    /\ w' = [w EXCEPT !.pc = "finish"]
    /\ UNCHANGED otherVars
    /\ UNCHANGED << chain_tip, lock, db, current_file_index, current_file_size,
                    max_block_file_size, rd, hist >>

\* main.rs:100  write_all fails after part of the block reached the file
AppendWriteErr ==
    /\ w.pc = "write"
    /\ files' = FileAppend(files, w.file, << Len(w.data) >>)
    /\ ReturnErr("write")
    /\ UNCHANGED otherVars
    /\ UNCHANGED << chain_tip, lock, db, current_file_index, current_file_size,
                    max_block_file_size, rd >>

\* mutant: the write lock is taken before the index put and held across it
AppendFinishLocked ==
    /\ w.pc = "finish"
    /\ ~lock.writer
    /\ lock.readers = 0
    /\ lock' = [lock EXCEPT !.writer = TRUE]
    /\ files' = FileAppend(files, w.file, << LZ4EndMark >>)
    /\ current_file_size' = current_file_size + (Len(files'[w.file]) - w.offset)
    /\ w' = [w EXCEPT !.pc = "put"]
    /\ hist' = [hist EXCEPT !.log[Len(hist.log)].done = TRUE]
    /\ UNCHANGED otherVars
    /\ UNCHANGED << chain_tip, db, current_file_index,
                    max_block_file_size, rd >>

\* main.rs:101-107  finish writes the end mark; the tracked size grows by the
\* distance from the recorded offset to the position after the write
AppendFinish ==
    /\ w.pc = "finish"
    /\ files' = FileAppend(files, w.file, << LZ4EndMark >>)
    /\ current_file_size' = current_file_size + (Len(files'[w.file]) - w.offset)
    /\ w' = [w EXCEPT !.pc = "put"]
    /\ hist' = [hist EXCEPT !.log[Len(hist.log)].done = TRUE]
    /\ UNCHANGED otherVars
    /\ UNCHANGED << chain_tip, lock, db, current_file_index,
                    max_block_file_size, rd >>

\* main.rs:101-102  finish fails, the frame has no end mark
AppendFinishErr ==
    /\ w.pc = "finish"
    /\ ReturnErr("finish")
    /\ UNCHANGED otherVars
    /\ UNCHANGED << chain_tip, lock, db, files, current_file_index,
                    current_file_size, max_block_file_size, rd >>

\* main.rs:104  the frame is complete, seek(Current(0))? fails: the tracked
\* size is not updated
AppendSeekErr ==
    /\ w.pc = "finish"
    /\ files' = FileAppend(files, w.file, << LZ4EndMark >>)
    /\ ReturnErr("seek")
    /\ UNCHANGED otherVars
    /\ UNCHANGED << chain_tip, lock, db, current_file_index, current_file_size,
                    max_block_file_size, rd >>

\* main.rs:150-151, storage.rs:46-54  store_block_location
StoreLocation ==
    /\ w.pc = "put"
    /\ db' = DbPut(db, w.hash, SerializeLocation(MkLocation(w.file, w.offset)))
    /\ w' = [w EXCEPT !.pc = "lock"]
    /\ UNCHANGED otherVars
    /\ UNCHANGED << chain_tip, lock, files, current_file_index,
                    current_file_size, max_block_file_size, rd, hist >>

\* mutant: the tip is advanced although the index put failed
StoreLocationErrTipMoved ==
    /\ w.pc = "put"
    /\ chain_tip' = w.hash
    /\ ReturnErr("put")
    /\ UNCHANGED otherVars
    /\ UNCHANGED << lock, db, files, current_file_index,
                    current_file_size, max_block_file_size, rd >>

\* main.rs:151  store_block_location(..).await? fails, nothing is put
StoreLocationErr ==
    /\ w.pc = "put"
    /\ ReturnErr("put")
    /\ UNCHANGED otherVars
    /\ UNCHANGED << chain_tip, lock, db, files, current_file_index,
                    current_file_size, max_block_file_size, rd >>

\* main.rs:154  self.chain_tip.write(): exclusive, waits for readers to leave
AcquireWrite ==
    /\ w.pc = "lock"
    /\ ~lock.writer
    /\ lock.readers = 0
    /\ lock' = [lock EXCEPT !.writer = TRUE]
    /\ w' = [w EXCEPT !.pc = "tip"]
    /\ UNCHANGED otherVars
    /\ UNCHANGED << chain_tip, db, files, current_file_index,
                    current_file_size, max_block_file_size, rd, hist >>

\* main.rs:155  *chain_tip = block_hash
WriteTip ==
    /\ w.pc = "tip"
    /\ chain_tip' = w.hash
    /\ w' = [w EXCEPT !.pc = "unlock"]
    /\ UNCHANGED otherVars
    /\ UNCHANGED << lock, db, files, current_file_index, current_file_size,
                    max_block_file_size, rd, hist >>

\* main.rs:157-158  Ok(()), the guard is dropped
ReleaseWrite ==
    /\ w.pc = "unlock"
    /\ lock' = [lock EXCEPT !.writer = FALSE]
    /\ hist' = [hist EXCEPT !.result = "ok",
                            !.added = @ \cup {DeserializeBlock(w.data).block}]
    /\ w' = WIdle
    /\ UNCHANGED otherVars
    /\ UNCHANGED << chain_tip, db, files, current_file_index,
                    current_file_size, max_block_file_size, rd >>

(***************************************************************************)
(* Blockchain::get_chain_tip and Blockchain::get_block, per reader task    *)
(***************************************************************************)
\* main.rs:138  the task calls get_chain_tip
GetChainTipCall(r) ==
    /\ rd[r].pc = "idle"
    /\ rd' = [rd EXCEPT ![r] = [RIdle EXCEPT !.pc = "acquire"]]
    /\ UNCHANGED otherVars
    /\ UNCHANGED << chain_tip, lock, db, files, current_file_index,
                    current_file_size, max_block_file_size, w, hist >>

\* main.rs:139  self.chain_tip.read(): shared, waits while the writer holds it
TipAcquire(r) ==
    /\ rd[r].pc = "acquire"
    /\ ~lock.writer
    /\ lock' = [lock EXCEPT !.readers = @ + 1]
    /\ rd' = [rd EXCEPT ![r].pc = "copy"]
    /\ UNCHANGED otherVars
    /\ UNCHANGED << chain_tip, db, files, current_file_index,
                    current_file_size, max_block_file_size, w, hist >>

\* main.rs:139  copy the hash out, drop the guard
TipCopy(r) ==
    /\ rd[r].pc = "copy"
    /\ lock' = [lock EXCEPT !.readers = @ - 1]
    /\ rd' = [rd EXCEPT ![r].pc = "idle", ![r].tip = chain_tip]
    /\ UNCHANGED otherVars
    /\ UNCHANGED << chain_tip, db, files, current_file_index,
                    current_file_size, max_block_file_size, w, hist >>

\* main.rs:160  the task calls get_block(block_hash)
GetBlockCall(r, block_hash) ==
    /\ rd[r].pc = "idle"
    /\ rd' = [rd EXCEPT ![r] = [RIdle EXCEPT !.pc = "retrieve",
                                             !.key = block_hash,
                                             !.tip = rd[r].tip]]
    /\ UNCHANGED otherVars
    /\ UNCHANGED << chain_tip, lock, db, files, current_file_index,
                    current_file_size, max_block_file_size, w, hist >>

\* mutant: a miss is reported as an error
GetBlockRetrieveMissErr(r) ==
    /\ rd[r].pc = "retrieve"
    /\ LET found == RetrieveBlockLocation(db, rd[r].key) IN
       rd' = [rd EXCEPT ![r] =
                IF found.kind = "some"
                THEN [@ EXCEPT !.pc = "read", !.location = found.location]
                ELSE [@ EXCEPT !.pc = "idle", !.res = [kind |-> "err"],
                               !.missed = (found.kind = "none")]]
    /\ UNCHANGED otherVars
    /\ UNCHANGED << chain_tip, lock, db, files, current_file_index,
                    current_file_size, max_block_file_size, w, hist >>

\* main.rs:161, 165-167  retrieve_block_location; on a miss return Ok(None)
GetBlockRetrieve(r) ==
    /\ rd[r].pc = "retrieve"
    /\ LET found == RetrieveBlockLocation(db, rd[r].key) IN
       rd' = [rd EXCEPT ![r] =
                IF found.kind = "some"
                THEN [@ EXCEPT !.pc = "read", !.location = found.location]
                ELSE [@ EXCEPT !.pc = "idle", !.res = found,
                               !.missed = (found.kind = "none")]]
    /\ UNCHANGED otherVars
    /\ UNCHANGED << chain_tip, lock, db, files, current_file_index,
                    current_file_size, max_block_file_size, w, hist >>

\* main.rs:162-164  read_block_from_file, bincode::deserialize
GetBlockRead(r) ==
    /\ rd[r].pc = "read"
    /\ LET got == ReadBlockFromFile(files, rd[r].location)
           dec == IF got.ok THEN DeserializeBlock(got.data) ELSE [ok |-> FALSE]
       IN rd' = [rd EXCEPT ![r].pc = "idle", ![r].read = TRUE,
                           ![r].res = IF dec.ok
                                      THEN [kind |-> "some", block |-> dec.block]
                                      ELSE [kind |-> "err"]]
    /\ UNCHANGED otherVars
    /\ UNCHANGED << chain_tip, lock, db, files, current_file_index,
                    current_file_size, max_block_file_size, w, hist >>


ChainNext ==
    \/ \E b \in Blocks : AddBlockBegin(b)
    \/ AddBlockSerializeErr
    \/ AppendOpen
    \/ AppendOpenErr
    \/ AppendBuild
    \/ AppendBuildErr
    \/ AppendWrite
    \/ AppendWriteErr
    \/ AppendFinish
    \/ AppendFinishErr
    \/ AppendSeekErr
    \/ StoreLocation
    \/ StoreLocationErr
    \/ AcquireWrite
    \/ WriteTip
    \/ ReleaseWrite
    \/ \E r \in Readers : GetChainTipCall(r)
    \/ \E r \in Readers : TipAcquire(r)
    \/ \E r \in Readers : TipCopy(r)
    \/ \E r \in Readers, h \in Keys : GetBlockCall(r, h)
    \/ \E r \in Readers : GetBlockRetrieve(r)
    \/ \E r \in Readers : GetBlockRead(r)



Init ==
    /\ \E m \in MaxBlockFileSizes : ChainNew(m)
    /\ StorageNew
    /\ PoolNew(1, 1, 1)
    /\ DifficultyIdle(FALSE)

Spec == Init /\ [][ChainNext]_vars


(***************************************************************************)
(* Storage used directly: store / retrieve / delete of block locations     *)
(***************************************************************************)
\* number of store and delete calls
MaxOps == 3

\* the locations stored: the one of the test (storage.rs:100-103) and two
\* that add_block produces
StoreLocations == { MkLocation(<< "test_file.dat" >>, 1000),
                    MkLocation(FileName(1), 0),
                    MkLocation(FileName(2), 8) }

\* what the Storage actions leave alone
notStorageVars == << chain_tip, lock, files, current_file_index,
                     current_file_size, max_block_file_size, w, rd, hist,
                     poolVars, difficulty >>

\* mutant: a location is stored only under a key that has none yet
StoreBlockLocationIfAbsent(block_hash, location) ==
    /\ Len(st.ops) < MaxOps
    /\ db' = IF block_hash \in DOMAIN db THEN db
             ELSE DbPut(db, block_hash, SerializeLocation(location))
    /\ st' = [st EXCEPT !.ops = Append(@, [op |-> "store", key |-> block_hash,
                                           location |-> location])]
    /\ UNCHANGED notStorageVars

\* storage.rs:46-54
StoreBlockLocation(block_hash, location) ==
    /\ Len(st.ops) < MaxOps
    /\ db' = DbPut(db, block_hash, SerializeLocation(location))
    /\ st' = [st EXCEPT !.ops = Append(@, [op |-> "store", key |-> block_hash,
                                           location |-> location])]
    /\ UNCHANGED notStorageVars

\* storage.rs:69-76
DeleteBlockLocation(block_hash) ==
    /\ Len(st.ops) < MaxOps
    /\ db' = DbDelete(db, block_hash)
    /\ st' = [st EXCEPT !.ops = Append(@, [op |-> "delete", key |-> block_hash])]
    /\ UNCHANGED notStorageVars

\* storage.rs:56-67  the call and its result, taken after `at` operations
RetrieveLocationCall(block_hash) ==
    /\ st' = [st EXCEPT !.res = [kind |-> "set", key |-> block_hash,
                                 at |-> Len(st.ops),
                                 result |-> RetrieveBlockLocation(db, block_hash)]]
    /\ UNCHANGED db
    /\ UNCHANGED notStorageVars

\* the keys db.iterator(IteratorMode::End) can come to first, the last in byte
\* order: the all-zero key is below every other key; which of the digests is
\* the largest is not known to the model
LatestKeys(d) ==
    IF DOMAIN d \ { ZeroHash } = {} THEN DOMAIN d ELSE DOMAIN d \ { ZeroHash }

\* storage.rs:78-86  the call and its result, taken after `at` operations;
\* last is the key the iterator yields (the all-zero key stands in when the
\* index is empty and there is none)
GetLatestBlockHashCall(last) ==
    /\ IF DOMAIN db = {} THEN last = ZeroHash ELSE last \in LatestKeys(db)
    /\ st' = [st EXCEPT !.res =
                [kind |-> "latest", at |-> Len(st.ops),
                 result |-> IF DOMAIN db = {} THEN [kind |-> "none"]
                            ELSE [kind |-> "some", key |-> last]]]
    /\ UNCHANGED db
    /\ UNCHANGED notStorageVars

StorageNext ==
    \/ \E k \in Keys, l \in StoreLocations : StoreBlockLocation(k, l)
    \/ \E k \in Keys : DeleteBlockLocation(k)
    \/ \E k \in Keys : RetrieveLocationCall(k)
    \/ \E k \in Keys : GetLatestBlockHashCall(k)

SpecStorage == Init /\ [][StorageNext]_vars

(***************************************************************************)
(* Mempool items.  Transaction and SignedBlock are defined in modules of   *)
(* the crate that are outside the sources at hand: an item is its content, *)
(* its timestamp and the length of its bincode encoding.                   *)
(***************************************************************************)
\* number of Mempool calls
MaxPoolCalls == 5

\* last value of the clock, in ticks
MaxTime == 4

\* (size_limit_mb, transaction_timeout_secs, fruit_timeout_secs) passed to new
PoolConfigs == { << 1, 1, 2 >>, << 1, 2, 1 >> }

\* a transaction's timestamp is an Instant, in ticks
PoolTransactions ==
    { [payload |-> 1, timestamp |-> 0, size |-> 400000],
      [payload |-> 2, timestamp |-> 2, size |-> 500000] }

\* SignedBlock: block.block_type, block.header.timestamp, block.fruit_header
PoolBlocks ==
    { [block |-> [block_type |-> "Fruit", header |-> [timestamp |-> 0],
                  fruit_header |-> << "fa" >>, payload |-> 1], size |-> 300000],
      [block |-> [block_type |-> "Fruit", header |-> [timestamp |-> 2],
                  fruit_header |-> << "fb" >>, payload |-> 2], size |-> 200000],
      [block |-> [block_type |-> "Regular", header |-> [timestamp |-> 1],
                  fruit_header |-> << >>, payload |-> 3], size |-> 300000] }

\* the FruitHeader values remove_fruits is called with; Some(h) is << h >>
FruitHeaders == { "fa", "fb", "fc" }

\* transaction.hash()
TxHash(tx) == << "tx", tx.payload >>

\* fruit.block.hash()
FruitHash(fruit) == << "block", fruit.block.payload >>

\* bincode::serialize(&transaction)?.len()
TxSize(tx) == tx.size

\* bincode::serialize(&fruit)?.len()
FruitSize(fruit) == fruit.size

\* tx.timestamp()
TxTimestamp(tx) == tx.timestamp

(***************************************************************************)
(* rs_merkle::MerkleTree: committed leaves and leaves not yet committed    *)
(***************************************************************************)
TreeNew == [leaves |-> <<>>, uncommitted |-> <<>>]

TreeInsert(tree, leaf) == [tree EXCEPT !.uncommitted = Append(@, leaf)]

TreeCommit(tree) ==
    [leaves |-> tree.leaves \o tree.uncommitted, uncommitted |-> <<>>]

\* the tree rebuild_merkle_trees makes of a queue, mempool.rs:190-203
TreeOfQueue(queue) == TreeCommit([leaves |-> <<>>, uncommitted |-> queue])

\* the elements of a queue
Elements(queue) == { queue[i] : i \in 1..Len(queue) }

\* Hasher::concat_and_hash with a right sibling: TransactionHasher::hash of the
\* two hashes joined (mempool.rs:16-18), collision free
ConcatAndHash(left, right) == << "node", left, right >>

\* the layer above a layer: pairs are hashed, a last node without a right
\* sibling is carried up as it is
RECURSIVE ParentLayer(_)
ParentLayer(layer) ==
    IF Len(layer) = 0 THEN <<>>
    ELSE IF Len(layer) = 1 THEN << layer[1] >>
    ELSE << ConcatAndHash(layer[1], layer[2]) >>
         \o ParentLayer(SubSeq(layer, 3, Len(layer)))

\* the single node of the top layer over a non-empty layer
RECURSIVE RootOfLayer(_)
RootOfLayer(layer) ==
    IF Len(layer) = 1 THEN layer[1] ELSE RootOfLayer(ParentLayer(layer))

\* [0; 32] as the value of a root, mempool.rs:145 and 149
ZeroRoot == << "zero", 0 >>

\* MerkleTree::root(): None for a tree without committed leaves
TreeRoot(tree) ==
    IF tree.leaves = <<>> THEN [some |-> FALSE]
    ELSE [some |-> TRUE, hash |-> RootOfLayer(tree.leaves)]

\* get_transaction_merkle_root / get_fruit_merkle_root: root().unwrap_or([0; 32])
GetMerkleRoot(tree) ==
    IF TreeRoot(tree).some THEN TreeRoot(tree).hash ELSE ZeroRoot

\* MerkleTree::proof(&[index]).proof_hashes(): the siblings of the leaf's
\* ancestors from the leaves up, none for a node that is carried up
RECURSIVE ProofHashes(_, _)
ProofHashes(layer, index) ==
    IF Len(layer) <= 1 THEN <<>>
    ELSE LET sibling == IF index % 2 = 1 THEN index + 1 ELSE index - 1 IN
         (IF sibling <= Len(layer) THEN << layer[sibling] >> ELSE <<>>)
         \o ProofHashes(ParentLayer(layer), (index + 1) \div 2)

\* leaves.iter().position(|&x| x == *hash): the first index, 0 for None
Position(leaves, hash) ==
    IF hash \in Elements(leaves)
    THEN CHOOSE i \in 1..Len(leaves) :
           /\ leaves[i] = hash
           /\ \A j \in 1..(i - 1) : leaves[j] # hash
    ELSE 0

\* get_transaction_proof / get_fruit_proof on a tree, mempool.rs:152-162
GetProof(tree, hash) ==
    IF tree.leaves = <<>> THEN [some |-> FALSE]
    ELSE IF Position(tree.leaves, hash) = 0 THEN [some |-> FALSE]
    ELSE [some |-> TRUE,
          path |-> ProofHashes(tree.leaves, Position(tree.leaves, hash))]

\* the root a sibling path leads to from the leaf at index among count
\* leaves, as MerkleProof::root computes it with the same hasher; ok is false
\* when the path has too few or too many hashes
RECURSIVE RootFromProof(_, _, _, _)
RootFromProof(hash, path, index, count) ==
    IF count <= 1 THEN [ok |-> path = <<>>, hash |-> hash]
    ELSE LET sibling == IF index % 2 = 1 THEN index + 1 ELSE index - 1
             up == (index + 1) \div 2
             upcount == (count + 1) \div 2
         IN IF sibling > count
            THEN RootFromProof(hash, path, up, upcount)
            ELSE IF path = <<>> THEN [ok |-> FALSE, hash |-> hash]
            ELSE RootFromProof(
                     IF index % 2 = 1 THEN ConcatAndHash(hash, Head(path))
                     ELSE ConcatAndHash(Head(path), hash),
                     Tail(path), up, upcount)

\* the proof get_*_proof returns for hash is present and leads to the root
\* get_*_merkle_root returns
Provable(tree, hash) ==
    /\ GetProof(tree, hash).some
    /\ RootFromProof(hash, GetProof(tree, hash).path,
                     Position(tree.leaves, hash), Len(tree.leaves))
         = [ok |-> TRUE, hash |-> GetMerkleRoot(tree)]

(***************************************************************************)
(* Mempool operations                                                      *)
(***************************************************************************)
\* usize::saturating_sub
SaturatingSub(a, b) == IF a >= b THEN a - b ELSE 0

\* Instant::duration_since, which saturates at zero
DurationSince(later, earlier) == SaturatingSub(later, earlier)

\* HashMap::insert
MapInsert(map, key, value) ==
    [k \in DOMAIN map \cup {key} |-> IF k = key THEN value ELSE map[k]]

\* HashMap::remove
MapRemove(map, key) == [k \in DOMAIN map \ {key} |-> map[k]]

\* VecDeque::retain, with kept the elements the closure returns true for
Retain(queue, kept) == SelectSeq(queue, LAMBDA x : x \in kept)

\* what the Mempool actions leave alone
notPoolVars == << chainVars, st, difficulty >>

poolConfig == << size_limit_bytes, transaction_timeout, fruit_timeout >>

\* the call counts towards MaxPoolCalls and returns result
Returns(op, arg, result) ==
    pres' = [op |-> op, arg |-> arg, result |-> result, n |-> pres.n + 1]

\* mutant: the hash is queued before the capacity check
AddTransactionQueuedFirst(transaction) ==
    /\ pres.n < MaxPoolCalls
    /\ transaction_queue' = Append(transaction_queue, TxHash(transaction))
    /\ IF current_size_bytes + TxSize(transaction) > size_limit_bytes
       THEN /\ Returns("add_transaction", transaction, "PoolFull")
            /\ UNCHANGED << transaction_merkle_tree, transactions,
                            current_size_bytes >>
       ELSE /\ transactions' = MapInsert(transactions, TxHash(transaction),
                                         transaction)
            /\ current_size_bytes' = current_size_bytes + TxSize(transaction)
            /\ transaction_merkle_tree' =
                 TreeCommit(TreeInsert(transaction_merkle_tree,
                                       TxHash(transaction)))
            /\ Returns("add_transaction", transaction, "Ok")
    /\ UNCHANGED << fruit_merkle_tree, fruits, fruit_queue, poolConfig,
                    last_cleanup, now >>
    /\ UNCHANGED notPoolVars

\* mempool.rs:66-82
AddTransaction(transaction) ==
    /\ pres.n < MaxPoolCalls
    /\ IF current_size_bytes + TxSize(transaction) > size_limit_bytes
       THEN /\ Returns("add_transaction", transaction, "PoolFull")
            /\ UNCHANGED << transaction_merkle_tree, transactions,
                            transaction_queue, current_size_bytes >>
       ELSE /\ transactions' = MapInsert(transactions, TxHash(transaction),
                                         transaction)
            /\ transaction_queue' = Append(transaction_queue, TxHash(transaction))
            /\ current_size_bytes' = current_size_bytes + TxSize(transaction)
            /\ transaction_merkle_tree' =
                 TreeCommit(TreeInsert(transaction_merkle_tree,
                                       TxHash(transaction)))
            /\ Returns("add_transaction", transaction, "Ok")
    /\ UNCHANGED << fruit_merkle_tree, fruits, fruit_queue, poolConfig,
                    last_cleanup, now >>
    /\ UNCHANGED notPoolVars

\* mutant: the capacity check comes before the check of the block type
AddFruitCapacityFirst(fruit) ==
    /\ pres.n < MaxPoolCalls
    /\ IF current_size_bytes + FruitSize(fruit) > size_limit_bytes
       THEN /\ Returns("add_fruit", fruit, "PoolFull")
            /\ UNCHANGED << fruit_merkle_tree, fruits, fruit_queue,
                            current_size_bytes >>
       ELSE IF fruit.block.block_type # "Fruit"
       THEN /\ Returns("add_fruit", fruit, "InvalidHash")
            /\ UNCHANGED << fruit_merkle_tree, fruits, fruit_queue,
                            current_size_bytes >>
       ELSE /\ fruits' = MapInsert(fruits, FruitHash(fruit), fruit)
            /\ fruit_queue' = Append(fruit_queue, FruitHash(fruit))
            /\ current_size_bytes' = current_size_bytes + FruitSize(fruit)
            /\ fruit_merkle_tree' =
                 TreeCommit(TreeInsert(fruit_merkle_tree, FruitHash(fruit)))
            /\ Returns("add_fruit", fruit, "Ok")
    /\ UNCHANGED << transaction_merkle_tree, transactions, transaction_queue,
                    poolConfig, last_cleanup, now >>
    /\ UNCHANGED notPoolVars

\* mempool.rs:84-104
AddFruit(fruit) ==
    /\ pres.n < MaxPoolCalls
    /\ IF fruit.block.block_type # "Fruit"
       THEN /\ Returns("add_fruit", fruit, "InvalidHash")
            /\ UNCHANGED << fruit_merkle_tree, fruits, fruit_queue,
                            current_size_bytes >>
       ELSE IF current_size_bytes + FruitSize(fruit) > size_limit_bytes
       THEN /\ Returns("add_fruit", fruit, "PoolFull")
            /\ UNCHANGED << fruit_merkle_tree, fruits, fruit_queue,
                            current_size_bytes >>
       ELSE /\ fruits' = MapInsert(fruits, FruitHash(fruit), fruit)
            /\ fruit_queue' = Append(fruit_queue, FruitHash(fruit))
            /\ current_size_bytes' = current_size_bytes + FruitSize(fruit)
            /\ fruit_merkle_tree' =
                 TreeCommit(TreeInsert(fruit_merkle_tree, FruitHash(fruit)))
            /\ Returns("add_fruit", fruit, "Ok")
    /\ UNCHANGED << transaction_merkle_tree, transactions, transaction_queue,
                    poolConfig, last_cleanup, now >>
    /\ UNCHANGED notPoolVars

\* the age cleanup_expired computes for a fruit, mempool.rs:130:
\*   now.duration_since(Instant::now() - Duration::from_secs(timestamp))
\* with `late` the ticks the second reading of the clock is behind the first
FruitAge(fruit, first_now, late) ==
    DurationSince(first_now,
                  (first_now + late) - FromSecs(fruit.block.header.timestamp))

Min(a, b) == IF a <= b THEN a ELSE b

\* mutant: the gate waits for the larger of the two timeouts
CleanupExpiredMaxGate(late) ==
    /\ pres.n < MaxPoolCalls
    /\ IF DurationSince(now, last_cleanup)
            < (IF transaction_timeout >= fruit_timeout
               THEN transaction_timeout ELSE fruit_timeout)
       THEN /\ Returns("cleanup_expired", late, "skipped")
            /\ UNCHANGED << transaction_merkle_tree, fruit_merkle_tree,
                            transaction_queue, fruit_queue, last_cleanup >>
       ELSE LET KeepTx ==
                    { hash \in Elements(transaction_queue) :
                        IF hash \in DOMAIN transactions
                        THEN DurationSince(now, TxTimestamp(transactions[hash]))
                               < transaction_timeout
                        ELSE FALSE }
                KeepFruit ==
                    { hash \in Elements(fruit_queue) :
                        IF hash \in DOMAIN fruits
                        THEN FruitAge(fruits[hash], now, late) < fruit_timeout
                        ELSE FALSE }
            IN /\ transaction_queue' = Retain(transaction_queue, KeepTx)
               /\ fruit_queue' = Retain(fruit_queue, KeepFruit)
               /\ transaction_merkle_tree' = TreeOfQueue(transaction_queue')
               /\ fruit_merkle_tree' = TreeOfQueue(fruit_queue')
               /\ last_cleanup' = now
               /\ Returns("cleanup_expired", late, "ran")
    /\ UNCHANGED << transactions, fruits, current_size_bytes, poolConfig, now >>
    /\ UNCHANGED notPoolVars

\* mempool.rs:114-138; the second reading of the clock, in the fruit closure,
\* is the same instant (late = 0) or a later one (late = 1)
CleanupExpired(late) ==
    /\ pres.n < MaxPoolCalls
    /\ IF DurationSince(now, last_cleanup) < Min(transaction_timeout, fruit_timeout)
       THEN /\ Returns("cleanup_expired", late, "skipped")
            /\ UNCHANGED << transaction_merkle_tree, fruit_merkle_tree,
                            transaction_queue, fruit_queue, last_cleanup >>
       ELSE LET KeepTx ==
                    { hash \in Elements(transaction_queue) :
                        IF hash \in DOMAIN transactions
                        THEN DurationSince(now, TxTimestamp(transactions[hash]))
                               < transaction_timeout
                        ELSE FALSE }
                KeepFruit ==
                    { hash \in Elements(fruit_queue) :
                        IF hash \in DOMAIN fruits
                        THEN FruitAge(fruits[hash], now, late) < fruit_timeout
                        ELSE FALSE }
            IN /\ transaction_queue' = Retain(transaction_queue, KeepTx)
               /\ fruit_queue' = Retain(fruit_queue, KeepFruit)
               /\ transaction_merkle_tree' = TreeOfQueue(transaction_queue')
               /\ fruit_merkle_tree' = TreeOfQueue(fruit_queue')
               /\ last_cleanup' = now
               /\ Returns("cleanup_expired", late, "ran")
    /\ UNCHANGED << transactions, fruits, current_size_bytes, poolConfig, now >>
    /\ UNCHANGED notPoolVars

\* the loop of remove_transactions, mempool.rs:165-172, on the map, the queue
\* and the size counter
RECURSIVE RemoveTransactionsLoop(_, _)
RemoveTransactionsLoop(state, list) ==
    IF list = <<>> THEN state
    ELSE LET tx == Head(list)
             hash == TxHash(tx)
         IN RemoveTransactionsLoop(
                [map |-> MapRemove(state.map, hash),
                 queue |-> Retain(state.queue, Elements(state.queue) \ {hash}),
                 size |-> SaturatingSub(state.size, TxSize(tx))],
                Tail(list))

\* mutant: the trees are not rebuilt after the loop
RemoveTransactionsKeepTree(list) ==
    /\ pres.n < MaxPoolCalls
    /\ LET out == RemoveTransactionsLoop(
                      [map |-> transactions, queue |-> transaction_queue,
                       size |-> current_size_bytes], list)
       IN /\ transactions' = out.map
          /\ transaction_queue' = out.queue
          /\ current_size_bytes' = out.size
    /\ Returns("remove_transactions", list, "Ok")
    /\ UNCHANGED << transaction_merkle_tree, fruit_merkle_tree, fruits,
                    fruit_queue, poolConfig, last_cleanup, now >>
    /\ UNCHANGED notPoolVars

\* mempool.rs:164-174
RemoveTransactions(list) ==
    /\ pres.n < MaxPoolCalls
    /\ LET out == RemoveTransactionsLoop(
                      [map |-> transactions, queue |-> transaction_queue,
                       size |-> current_size_bytes], list)
       IN /\ transactions' = out.map
          /\ transaction_queue' = out.queue
          /\ current_size_bytes' = out.size
          /\ transaction_merkle_tree' = TreeOfQueue(out.queue)
          /\ fruit_merkle_tree' = TreeOfQueue(fruit_queue)
    /\ Returns("remove_transactions", list, "Ok")
    /\ UNCHANGED << fruits, fruit_queue, poolConfig, last_cleanup, now >>
    /\ UNCHANGED notPoolVars

\* the loop of remove_fruits, mempool.rs:177-186: every state it can end in;
\* find returns one of the pooled fruits with the header, whichever the map's
\* iteration comes to first
RECURSIVE RemoveFruitsLoop(_, _)
RemoveFruitsLoop(state, headers) ==
    IF headers = <<>> THEN {state}
    ELSE LET header == Head(headers)
             found == { h \in DOMAIN state.map :
                          state.map[h].block.fruit_header = << header >> }
         IN IF found = {} THEN RemoveFruitsLoop(state, Tail(headers))
            ELSE UNION {
                   RemoveFruitsLoop(
                       [map |-> MapRemove(state.map, FruitHash(state.map[h])),
                        queue |-> Retain(state.queue,
                                         Elements(state.queue)
                                           \ {FruitHash(state.map[h])}),
                        size |-> SaturatingSub(state.size,
                                               FruitSize(state.map[h]))],
                       Tail(headers))
                   : h \in found }

\* mempool.rs:176-188
RemoveFruits(fruit_headers) ==
    /\ pres.n < MaxPoolCalls
    /\ \E out \in RemoveFruitsLoop(
                      [map |-> fruits, queue |-> fruit_queue,
                       size |-> current_size_bytes], fruit_headers) :
          /\ fruits' = out.map
          /\ fruit_queue' = out.queue
          /\ current_size_bytes' = out.size
          /\ fruit_merkle_tree' = TreeOfQueue(out.queue)
          /\ transaction_merkle_tree' = TreeOfQueue(transaction_queue)
    /\ Returns("remove_fruits", fruit_headers, "Ok")
    /\ UNCHANGED << transactions, transaction_queue, poolConfig,
                    last_cleanup, now >>
    /\ UNCHANGED notPoolVars

\* time passes between calls
Tick ==
    /\ now < MaxTime
    /\ now' = now + 1
    /\ UNCHANGED << transaction_merkle_tree, fruit_merkle_tree, transactions,
                    fruits, transaction_queue, fruit_queue, poolConfig,
                    current_size_bytes, last_cleanup, pres >>
    /\ UNCHANGED notPoolVars

\* the argument lists of the remove calls: up to two elements
ListsOf(S) == UNION { [1..n -> S] : n \in 0..2 }

PoolNext ==
    \/ \E t \in PoolTransactions : AddTransaction(t)
    \/ \E f \in PoolBlocks : AddFruit(f)
    \/ \E late \in {0, 1} : CleanupExpired(late)
    \/ \E l \in ListsOf(PoolTransactions) : RemoveTransactions(l)
    \/ \E l \in ListsOf(FruitHeaders) : RemoveFruits(l)
    \/ Tick

PoolInit ==
    /\ ChainNew(8)
    /\ StorageNew
    /\ \E c \in PoolConfigs : PoolNew(c[1], c[2], c[3])
    /\ DifficultyIdle(FALSE)

SpecPool == PoolInit /\ [][PoolNext]_vars

(***************************************************************************)
(* Difficulty (difficulty.rs).  A u32 is its four bytes, a u64 its eight   *)
(* and a u128 its sixteen, most significant byte first.                    *)
(***************************************************************************)
\* number of Difficulty functions applied one to the result of the other
MaxSteps == 3

\* 0x1f000001, difficulty.rs:7
MAX_DIFFICULTY_BITS == << 31, 0, 0, 1 >>

\* 0x207fffff, difficulty.rs:8
MIN_DIFFICULTY_BITS == << 32, 127, 255, 255 >>

\* the u32 values handed to Difficulty::new or found in the pub field bits:
\* 0, 0x03000001, 0x0f00ffff, 0x1d00ffff, the two bounds, one between them
\* and u32::MAX
BitsInputs ==
    { << 0, 0, 0, 0 >>, << 3, 0, 0, 1 >>, << 15, 0, 255, 255 >>,
      << 29, 0, 255, 255 >>, << 31, 0, 0, 1 >>, << 31, 0, 255, 255 >>,
      << 32, 127, 255, 255 >>, << 255, 255, 255, 255 >> }

Zeros(n) == [i \in 1..n |-> 0]

\* a <= b for two unsigned values of the same width
RECURSIVE BytesLeq(_, _)
BytesLeq(a, b) ==
    IF a = <<>> THEN TRUE
    ELSE IF Head(a) < Head(b) THEN TRUE
    ELSE IF Head(a) > Head(b) THEN FALSE
    ELSE BytesLeq(Tail(a), Tail(b))

\* std::cmp::min
MinBytes(a, b) == IF BytesLeq(a, b) THEN a ELSE b

\* std::cmp::max
MaxBytes(a, b) == IF BytesLeq(a, b) THEN b ELSE a

\* Difficulty::new, difficulty.rs:18-20; a Difficulty is its field bits
DifficultyNew(bits) ==
    MaxBytes(MinBytes(bits, MAX_DIFFICULTY_BITS), MIN_DIFFICULTY_BITS)

\* Difficulty::target, difficulty.rs:22-39; the index start_idx is outside the
\* array when the exponent is 0
Target(bits) ==
    LET exponent == bits[1]
        significant_bytes == Min(exponent, 16)
        start_idx == 16 - significant_bytes
    IN IF start_idx > 15 THEN [panic |-> TRUE]
       ELSE [panic |-> FALSE, overflowed |-> FALSE,
             value |-> [i \in 1..16 |->
                 IF i = start_idx + 1 THEN bits[2]
                 ELSE IF i = start_idx + 2 /\ significant_bytes > 1 THEN bits[3]
                 ELSE IF i = start_idx + 3 /\ significant_bytes > 2 THEN bits[4]
                 ELSE 0]]

\* Difficulty::from_target, difficulty.rs:41-55
FromTarget(target) ==
    IF \A k \in 1..16 : target[k] = 0
    THEN [panic |-> FALSE, overflowed |-> FALSE,
          value |-> DifficultyNew(<< 0, 0, 0, 0 >>)]
    ELSE LET i == CHOOSE k \in 1..16 :
                    /\ target[k] # 0
                    /\ \A j \in 1..(k - 1) : target[j] = 0
             significant_bytes == 17 - i
         IN [panic |-> FALSE, overflowed |-> FALSE,
             value |-> DifficultyNew(
                 << significant_bytes, target[i],
                    IF i + 1 <= 16 THEN target[i + 1] ELSE 0,
                    IF i + 2 <= 16 THEN target[i + 2] ELSE 0 >>)]

\* u128 << and >> by a whole number of bytes below sixteen
Shl(x, bytes) == SubSeq(x, bytes + 1, 16) \o Zeros(bytes)

Shr(x, bytes) == Zeros(bytes) \o SubSeq(x, 1, 16 - bytes)

\* the shift amount of to_target, 8 * (exponent as u128 - 3), as the integers
\* give it (difficulty.rs:68)
ToTargetShift(bits) == 8 * (bits[1] - 3)

\* Difficulty::to_target, difficulty.rs:63-70.  A subtraction below zero or a
\* shift amount of 128 or more panics in a build with overflow checks; without
\* them the amount wraps and is taken modulo 128.
ToTarget(bits, overflow_checks) ==
    LET shift == ToTargetShift(bits)
        mantissa == Zeros(13) \o SubSeq(bits, 2, 4)
    IN IF shift \in 0..127
       THEN [panic |-> FALSE, overflowed |-> FALSE,
             value |-> Shl(mantissa, shift \div 8)]
       ELSE IF overflow_checks THEN [panic |-> TRUE]
       ELSE [panic |-> FALSE, overflowed |-> TRUE,
             value |-> Shl(mantissa, (shift % 128) \div 8)]

\* the loop of from_target_u128, difficulty.rs:87-91
RECURSIVE FromTargetLoop(_, _)
FromTargetLoop(shifted_target, exponent) ==
    IF shifted_target # Zeros(16) /\ exponent > 3
    THEN FromTargetLoop(Shr(shifted_target, 1), exponent - 1)
    ELSE exponent

\* min(target >> (8 * bytes), 0x00ffffff) as u32, difficulty.rs:94
MantissaOf(target, bytes) ==
    IF BytesLeq(Shr(target, bytes), Zeros(13) \o << 255, 255, 255 >>)
    THEN SubSeq(Shr(target, bytes), 14, 16)
    ELSE << 255, 255, 255 >>

\* Difficulty::from_target_u128, difficulty.rs:82-98
FromTargetU128(target, overflow_checks) ==
    LET exponent == FromTargetLoop(target, 32)
        shift == 8 * (exponent - 3)
    IN IF shift < 128
       THEN [panic |-> FALSE, overflowed |-> FALSE,
             value |-> DifficultyNew(<< exponent >>
                                     \o MantissaOf(target, shift \div 8))]
       ELSE IF overflow_checks THEN [panic |-> TRUE]
       ELSE [panic |-> FALSE, overflowed |-> TRUE,
             value |-> DifficultyNew(<< exponent >>
                                     \o MantissaOf(target, (shift % 128) \div 8))]

Reverse(s) == [i \in 1..Len(s) |-> s[Len(s) + 1 - i]]

\* x * k from the least significant byte up; the carry out is the last element
RECURSIVE MulLE(_, _, _)
MulLE(x, k, carry) ==
    IF x = <<>> THEN << carry >>
    ELSE << (Head(x) * k + carry) % 256 >>
         \o MulLE(Tail(x), k, (Head(x) * k + carry) \div 256)

\* u128 * k: the low 128 bits and whether the product needs more
MulU128(x, k) ==
    [value |-> Reverse(SubSeq(MulLE(Reverse(x), k, 0), 1, 16)),
     overflow |-> MulLE(Reverse(x), k, 0)[17] # 0]

\* u128::saturating_mul
SaturatingMul(x, k) ==
    IF MulU128(x, k).overflow THEN [i \in 1..16 |-> 255] ELSE MulU128(x, k).value

\* x / k from the most significant byte down
RECURSIVE DivBE(_, _, _)
DivBE(x, k, rem) ==
    IF x = <<>> THEN <<>>
    ELSE << (rem * 256 + Head(x)) \div k >>
         \o DivBE(Tail(x), k, (rem * 256 + Head(x)) % k)

\* Difficulty::stem_difficulty, difficulty.rs:76-80
StemDifficulty(bits, overflow_checks) ==
    LET target == ToTarget(bits, overflow_checks) IN
    IF target.panic THEN [panic |-> TRUE]
    ELSE LET out == FromTargetU128(SaturatingMul(target.value, 2),
                                   overflow_checks)
         IN IF out.panic THEN [panic |-> TRUE]
            ELSE [out EXCEPT !.overflowed = @ \/ target.overflowed]

\* difficulty.rs:102
MAX_ADJUSTMENT_RATIO == 4

\* a small number as a u64
U64(n) ==
    [i \in 1..8 |-> IF i <= 5 THEN 0 ELSE (n \div (256 ^ (8 - i))) % 256]

\* u64::MAX
U64Max == [i \in 1..8 |-> 255]

\* the number a u64 below 2^24 stands for
ToInt(bytes) == bytes[6] * 65536 + bytes[7] * 256 + bytes[8]

\* actual_timespan values: 0, 1, the target, sixteen times the target, u64::MAX
ActualTimespans == { U64(0), U64(1), U64(600), U64(9600), U64Max }

\* target_timespan values, small enough for target_timespan * 4 to stay in 64
\* bits
TargetTimespans == { 0, 1, 600 }

\* adjust_difficulty, difficulty.rs:101-109, its first component; the f64
\* percent_change is left out
AdjustDifficulty(bits, actual_timespan, target_timespan, overflow_checks) ==
    LET adjusted_timespan ==
            MinBytes(MaxBytes(actual_timespan,
                              U64(target_timespan \div MAX_ADJUSTMENT_RATIO)),
                     U64(target_timespan * MAX_ADJUSTMENT_RATIO))
        current_target == ToTarget(bits, overflow_checks)
    IN IF current_target.panic THEN [panic |-> TRUE]
       ELSE LET product == MulU128(current_target.value,
                                   ToInt(adjusted_timespan))
            IN IF product.overflow /\ overflow_checks THEN [panic |-> TRUE]
               ELSE IF target_timespan = 0 THEN [panic |-> TRUE]
               ELSE LET out == FromTargetU128(
                                   DivBE(product.value, target_timespan, 0),
                                   overflow_checks)
                    IN IF out.panic THEN [panic |-> TRUE]
                       ELSE [out EXCEPT !.overflowed =
                                @ \/ current_target.overflowed
                                  \/ product.overflow]

\* the [u8; 16] values handed to from_target: zero, one byte at the end, a
\* three-byte number, a full array
TargetInputs ==
    { Zeros(16), Zeros(15) \o << 1 >>, Zeros(13) \o << 1, 2, 3 >>,
      << 127, 255, 255 >> \o Zeros(13) }

\* what the Difficulty actions leave alone
notDifficultyVars == << chainVars, st, poolVars >>

\* a call of function name with arg returned out (or panicked); kind is the
\* type of its value
Called(name, arg, kind, out) ==
    /\ difficulty.cur.kind # "panic"
    /\ Len(difficulty.trace) < MaxSteps
    /\ difficulty' =
         [difficulty EXCEPT
            !.prev = difficulty.cur,
            !.cur = IF out.panic THEN [kind |-> "panic"]
                    ELSE [kind |-> kind, value |-> out.value],
            !.overflowed = IF out.panic THEN FALSE ELSE out.overflowed,
            !.trace = Append(@, << name, arg >>)]
    /\ UNCHANGED notDifficultyVars

\* Difficulty::new(bits) starts a computation
CallNew(bits) ==
    /\ difficulty.trace = <<>>
    /\ Called("new", bits, "difficulty",
              [panic |-> FALSE, overflowed |-> FALSE,
               value |-> DifficultyNew(bits)])

\* a Difficulty that did not come from new: the field bits is pub and the
\* struct derives Deserialize (difficulty.rs:12-15)
CallLiteral(bits) ==
    /\ difficulty.trace = <<>>
    /\ Called("literal", bits, "difficulty",
              [panic |-> FALSE, overflowed |-> FALSE, value |-> bits])

\* target() of the Difficulty at hand
CallTarget ==
    /\ difficulty.cur.kind = "difficulty"
    /\ Called("target", <<>>, "array", Target(difficulty.cur.value))

\* from_target of a given array, or of the array at hand
CallFromTarget(target) ==
    /\ \/ difficulty.trace = <<>>
       \/ difficulty.cur = [kind |-> "array", value |-> target]
    /\ Called("from_target", target, "difficulty", FromTarget(target))

\* from_target of the array target() returned
CallFromTargetOfArray ==
    /\ difficulty.cur.kind = "array"
    /\ CallFromTarget(difficulty.cur.value)

\* to_target() of the Difficulty at hand
CallToTarget ==
    /\ difficulty.cur.kind = "difficulty"
    /\ Called("to_target", <<>>, "u128",
              ToTarget(difficulty.cur.value, difficulty.overflow_checks))

\* from_target_u128 of the u128 at hand
CallFromTargetU128 ==
    /\ difficulty.cur.kind = "u128"
    /\ Called("from_target_u128", <<>>, "difficulty",
              FromTargetU128(difficulty.cur.value, difficulty.overflow_checks))

\* stem_difficulty() of the Difficulty at hand
CallStemDifficulty ==
    /\ difficulty.cur.kind = "difficulty"
    /\ Called("stem_difficulty", <<>>, "difficulty",
              StemDifficulty(difficulty.cur.value, difficulty.overflow_checks))

\* adjust_difficulty of the Difficulty at hand
CallAdjustDifficulty(actual_timespan, target_timespan) ==
    /\ difficulty.cur.kind = "difficulty"
    /\ Called("adjust_difficulty", << actual_timespan, target_timespan >>,
              "difficulty",
              AdjustDifficulty(difficulty.cur.value, actual_timespan,
                               target_timespan, difficulty.overflow_checks))

DifficultyNext ==
    \/ \E bits \in BitsInputs : CallNew(bits)
    \/ \E bits \in BitsInputs : CallLiteral(bits)
    \/ CallTarget
    \/ \E target \in TargetInputs : CallFromTarget(target)
    \/ CallFromTargetOfArray
    \/ CallToTarget
    \/ CallFromTargetU128
    \/ CallStemDifficulty
    \/ \E a \in ActualTimespans, t \in TargetTimespans :
          CallAdjustDifficulty(a, t)

DifficultyInit ==
    /\ ChainNew(8)
    /\ StorageNew
    /\ PoolNew(1, 1, 1)
    /\ \E overflow_checks \in BOOLEAN : DifficultyIdle(overflow_checks)

SpecDifficulty == DifficultyInit /\ [][DifficultyNext]_vars

(***************************************************************************)
(* Claims about the block storage engine, checked under Spec               *)
(***************************************************************************)
HashOfBlock(block) == BlockHashOf(SerializeBlock(block))

\* C1: whenever the chain tip is a hash other than the all-zero sentinel, the
\* index holds a location for it and get_block of it returns the block with
\* that hash; a reader that asks get_block for a non-zero tip it observed gets
\* that block, whatever the writer is doing meanwhile.
C1_TipIsRetrievable ==
    /\ chain_tip # ZeroHash =>
         /\ chain_tip \in DOMAIN db
         /\ LET got == GetBlock(db, files, chain_tip) IN
            /\ got.kind = "some"
            /\ HashOfBlock(got.block) = chain_tip
    /\ \A r \in Readers :
         ( /\ rd[r].pc = "idle"
           /\ rd[r].res.kind # "unset"
           /\ rd[r].tip # ZeroHash
           /\ rd[r].key = rd[r].tip )
         => /\ rd[r].res.kind = "some"
            /\ HashOfBlock(rd[r].res.block) = rd[r].key

\* a reader read the block of the tip it observed while the writer was in the
\* middle of appending another block
C1_Witness ==
    \E r \in Readers :
        /\ rd[r].pc = "idle"
        /\ rd[r].tip # ZeroHash
        /\ rd[r].key = rd[r].tip
        /\ rd[r].res.kind = "some"
        /\ w.pc = "finish"
        /\ w.hash # rd[r].tip

\* C2: an add_block call that fails before the tip update (serialization,
\* file append, or index put after a successful append) leaves the chain tip
\* at the value it had before the call.
C2_FailureKeepsTip ==
    /\ hist.result = "err" => chain_tip = hist.tip_at_call
    /\ w.pc \in {"append", "build", "write", "finish", "put", "lock"}
         => chain_tip = hist.tip_at_call

\* the index put failed after the frame was appended completely, with a tip
\* set by an earlier call
C2_Witness ==
    /\ hist.result = "err"
    /\ hist.failed_at = "put"
    /\ hist.log[Len(hist.log)].done
    /\ chain_tip # ZeroHash

\* C3: for every block B whose add_block returned Ok, the bytes read from B's
\* recorded location are exactly B's serialized bytes and get_block(hash(B))
\* returns B.
C3_RoundTrip ==
    \A b \in hist.added :
        LET found == RetrieveBlockLocation(db, HashOfBlock(b)) IN
        /\ found.kind = "some"
        /\ ReadBlockFromFile(files, found.location)
             = [ok |-> TRUE, data |-> SerializeBlock(b)]
        /\ GetBlock(db, files, HashOfBlock(b)) = [kind |-> "some", block |-> b]

\* two different blocks were added, the file rotated, and a block that was
\* added is followed by a later record in its file
C3_Witness ==
    /\ Cardinality(hist.added) = 2
    /\ current_file_index > 1
    /\ \E b \in hist.added :
         LET loc == RetrieveBlockLocation(db, HashOfBlock(b)).location IN
         Len(files[loc.file_name])
            > loc.byte_offset + Len(Frame(SerializeBlock(b)))

RECURSIVE AppendRun(_, _, _, _)
AppendRun(index, size, max, sizes) ==
    IF sizes = <<>> THEN <<>>
    ELSE LET t == DetermineTargetFile(index, size, max) IN
         << t.index >> \o AppendRun(t.index, t.size + Head(sizes), max, Tail(sizes))

\* C5: an append goes to block_file_<N> when the tracked size is below the
\* maximum and to block_file_<N+1>, with the tracked size reset to 0, exactly
\* when it has reached the maximum; the file index starts at 1 and never
\* decreases, and no append writes to a file whose index has been passed.
\* With maximum 100 and three appends of 60 bytes the files are 1, 1, 2.
C5_Rotation ==
    /\ current_file_index >= 1
    /\ \A i \in 1..Len(hist.log) :
         LET e == hist.log[i] IN
         /\ e.index_before >= 1
         /\ e.size_before < max_block_file_size
              => e.file = FileName(e.index_before) /\ e.index = e.index_before
         /\ e.size_before >= max_block_file_size
              => /\ e.file = FileName(e.index_before + 1)
                 /\ e.index = e.index_before + 1
                 /\ e.size = 0
         /\ \A j \in i+1..Len(hist.log) :
              /\ hist.log[j].index >= e.index
              /\ \A n \in 1..(e.index - 1) : hist.log[j].file # FileName(n)
         /\ current_file_index >= e.index
    /\ w.pc \in {"build", "write", "finish"} => w.file = FileName(current_file_index)
    /\ \A f \in DOMAIN files : \E n \in 1..current_file_index : f = FileName(n)
    /\ AppendRun(1, 0, 100, << 60, 60, 60 >>) = << 1, 1, 2 >>

\* an append found the tracked size equal to the maximum and went to the next
\* file, after an append that stayed in the file it found
C5_Witness ==
    \E i, j \in 1..Len(hist.log) :
        /\ i < j
        /\ hist.log[i].size_before < max_block_file_size
        /\ hist.log[i].size_before > 0
        /\ hist.log[j].size_before = max_block_file_size
        /\ hist.log[j].index = hist.log[i].index + 1
        /\ hist.log[j].done

\* C6: every index entry points to the start of a record of the named file,
\* the record holds the block with that hash, the offset is the length the
\* file had just before the record was appended, and different hashes have
\* different locations.
C6_IndexPointsToRecords ==
    /\ \A h \in DOMAIN db :
         LET dec == DeserializeLocation(db[h]) IN
         /\ dec.ok
         /\ dec.location.file_name \in DOMAIN files
         /\ LET got == ReadBlockFromFile(files, dec.location) IN
            got.ok /\ BlockHashOf(got.data) = h
         /\ \E i \in 1..Len(hist.log) :
              /\ hist.log[i].done
              /\ hist.log[i].hash = h
              /\ hist.log[i].file = dec.location.file_name
              /\ hist.log[i].len_before = dec.location.byte_offset
    /\ \A h1, h2 \in DOMAIN db :
         h1 # h2 => DeserializeLocation(db[h1]) # DeserializeLocation(db[h2])

\* two blocks are indexed in one file, the second behind the bytes a failed
\* append left there, so that the tracked size is not the file's length
C6_Witness ==
    /\ Cardinality(DOMAIN db) = 2
    /\ \E h1, h2 \in DOMAIN db :
         /\ h1 # h2
         /\ DeserializeLocation(db[h1]).location.file_name
              = DeserializeLocation(db[h2]).location.file_name
    /\ w.pc = "idle"
    /\ current_file_size # Len(files[FileName(current_file_index)])

\* C7: whoever holds the chain-tip lock is not in an I/O step: the writer
\* holds it only for the overwrite of the tip, a reader only for the copy; so
\* a get_chain_tip that waits for the lock never waits on a file write or an
\* index operation.
C7_NoIoUnderLock ==
    /\ lock.writer => w.pc \in {"tip", "unlock"}
    /\ ~lock.writer => w.pc \notin {"tip", "unlock"}
    /\ lock.readers = Cardinality({ r \in Readers : rd[r].pc = "copy" })
    /\ \A r \in Readers :
         (rd[r].pc = "acquire" /\ lock.writer)
         => w.pc \notin {"append", "build", "write", "finish", "put"}

\* a get_chain_tip waits for the lock while the writer overwrites the tip
C7_Witness ==
    \E r \in Readers :
        /\ rd[r].pc = "acquire"
        /\ lock.writer
        /\ w.pc = "tip"


(***************************************************************************)
(* Claims about Storage, checked under SpecStorage                         *)
(***************************************************************************)
\* what the operations ops[1..n] leave under key: the location of the last
\* store if no delete follows it, nothing otherwise
RECURSIVE LastStored(_, _, _)
LastStored(ops, n, key) ==
    IF n = 0 THEN [kind |-> "none"]
    ELSE IF ops[n].key # key THEN LastStored(ops, n - 1, key)
    ELSE IF ops[n].op = "store"
         THEN [kind |-> "some", location |-> ops[n].location]
         ELSE [kind |-> "none"]

\* C8: after any sequence of store and delete calls, retrieve_block_location
\* of a key returns Some(the location stored last under it) if it was stored
\* and not deleted since and None otherwise; an operation under one key
\* changes nothing that is retrieved for another.
C8_IndexIsAMap ==
    /\ \A k \in Keys :
         RetrieveBlockLocation(db, k) = LastStored(st.ops, Len(st.ops), k)
    /\ st.res.kind = "set"
         => st.res.result = LastStored(st.ops, st.res.at, st.res.key)

\* a key was stored, deleted and stored again with another location, another
\* key is stored too, and the first key was then retrieved
C8_Witness ==
    /\ Len(st.ops) = 3
    /\ st.ops[1].op = "store"
    /\ st.ops[2].op = "store"
    /\ st.ops[2].key # st.ops[1].key
    /\ st.ops[3].op = "store"
    /\ st.ops[3].key = st.ops[1].key
    /\ st.ops[3].location # st.ops[1].location
    /\ st.res.kind = "set"
    /\ st.res.at = 3
    /\ st.res.key = st.ops[1].key
    /\ st.res.result.kind = "some"


\* C23: a get_latest_block_hash made after store_block_location calls for
\* h1, ..., hn in that order and no delete returns Some(hn); made on an index
\* nothing was stored in, it returns None.
C23_LatestIsLastStored ==
    ( /\ st.res.kind = "latest"
      /\ \A i \in 1..st.res.at : st.ops[i].op = "store" )
    => st.res.result
         = IF st.res.at = 0 THEN [kind |-> "none"]
           ELSE [kind |-> "some", key |-> st.ops[st.res.at].key]

(***************************************************************************)
(* Claims about the Mempool, checked under SpecPool                        *)
(***************************************************************************)
\* maps, queues, trees (and so the roots) and the size counter
poolContent == << transactions, fruits, transaction_queue, fruit_queue,
                  transaction_merkle_tree, fruit_merkle_tree,
                  current_size_bytes >>

\* the step is a call of add_transaction, or of add_fruit with a fruit block
IsAddStep ==
    /\ pres'.n = pres.n + 1
    /\ \/ pres'.op = "add_transaction"
       \/ pres'.op = "add_fruit" /\ pres'.arg.block.block_type = "Fruit"

RECURSIVE SumOf(_)
SumOf(f) ==
    IF DOMAIN f = {} THEN 0
    ELSE LET k == CHOOSE x \in DOMAIN f : TRUE IN
         f[k] + SumOf([x \in DOMAIN f \ {k} |-> f[x]])

\* the serialized size of everything get_transactions and get_fruits return
HeldSize ==
    SumOf([h \in DOMAIN transactions |-> TxSize(transactions[h])])
    + SumOf([h \in DOMAIN fruits |-> FruitSize(fruits[h])])

\* C10: the serialized sizes of the items held in the two pools together
\* never exceed size_limit_bytes, and neither does current_size_bytes.
C10_CapacityBound ==
    /\ HeldSize <= size_limit_bytes
    /\ current_size_bytes <= size_limit_bytes

\* the step is a call of remove_transactions
IsRemoveTransactionsStep ==
    /\ pres'.n = pres.n + 1
    /\ pres'.op = "remove_transactions"

\* the step is a call of remove_fruits
IsRemoveFruitsStep ==
    /\ pres'.n = pres.n + 1
    /\ pres'.op = "remove_fruits"

\* the hashes of the transactions of a list
ListedHashes(list) == { TxHash(list[i]) : i \in 1..Len(list) }

\* C11: after remove_transactions(list), the hash of every listed transaction
\* is no key of the transaction map, is not in the transaction queue and has
\* no proof in the rebuilt tree; a transaction that is not listed stays in the
\* map as it was, and if it had a proof that led to the root before the call
\* it has one that leads to the new root after it.
C11_RemovalConsistency ==
    [][ IsRemoveTransactionsStep =>
          /\ \A h \in ListedHashes(pres'.arg) :
                /\ h \notin DOMAIN transactions'
                /\ h \notin Elements(transaction_queue')
                /\ ~GetProof(transaction_merkle_tree', h).some
          /\ \A h \in DOMAIN transactions \ ListedHashes(pres'.arg) :
                /\ h \in DOMAIN transactions'
                /\ transactions'[h] = transactions[h]
                /\ Provable(transaction_merkle_tree, h)
                     => Provable(transaction_merkle_tree', h) ]_vars

\* the third call removed one of two pooled transactions (the counter is what
\* the other one adds to it), and the other one is pooled and has a proof that
\* leads to the root
C11_Witness ==
    /\ pres.op = "remove_transactions"
    /\ pres.n = 3
    /\ Len(pres.arg) = 1
    /\ TxHash(pres.arg[1]) \notin DOMAIN transactions
    /\ \E h \in DOMAIN transactions :
         /\ current_size_bytes = TxSize(transactions[h])
         /\ h # TxHash(pres.arg[1])
         /\ Provable(transaction_merkle_tree, h)
         /\ GetMerkleRoot(transaction_merkle_tree) # ZeroRoot

\* C12: remove_transactions(list) takes from current_size_bytes exactly the
\* sum of the serialized sizes of the transactions it removed from the pool,
\* saturating at zero; remove_fruits does the same for the fruits it removed.
C12_RemovalAccounting ==
    [][ /\ IsRemoveTransactionsStep =>
            current_size_bytes' =
              SaturatingSub(current_size_bytes,
                  SumOf([h \in DOMAIN transactions \ DOMAIN transactions'
                           |-> TxSize(transactions[h])]))
        /\ IsRemoveFruitsStep =>
            current_size_bytes' =
              SaturatingSub(current_size_bytes,
                  SumOf([h \in DOMAIN fruits \ DOMAIN fruits'
                           |-> FruitSize(fruits[h])])) ]_vars

\* the hashes a caller can ask a proof for
PoolHashes ==
    { TxHash(t) : t \in PoolTransactions } \cup { FruitHash(f) : f \in PoolBlocks }

\* C13: every hash among the keys of a pool's map (what get_transactions /
\* get_fruits return) has a proof that leads to that pool's root; a hash that
\* is in neither the map nor the queue of a pool, as one that was never
\* inserted, has no proof.
C13_ProofAvailability ==
    /\ \A h \in DOMAIN transactions : Provable(transaction_merkle_tree, h)
    /\ \A h \in DOMAIN fruits : Provable(fruit_merkle_tree, h)
    /\ \A h \in PoolHashes :
         /\ (h \notin DOMAIN transactions /\ h \notin Elements(transaction_queue))
              => ~GetProof(transaction_merkle_tree, h).some
         /\ (h \notin DOMAIN fruits /\ h \notin Elements(fruit_queue))
              => ~GetProof(fruit_merkle_tree, h).some

\* C14: for each pool the keys of the map, the hashes in the queue and the
\* leaves of the tree are the same set.
C14_NoPartialState ==
    /\ DOMAIN transactions = Elements(transaction_queue)
    /\ Elements(transaction_queue) = Elements(transaction_merkle_tree.leaves)
    /\ DOMAIN fruits = Elements(fruit_queue)
    /\ Elements(fruit_queue) = Elements(fruit_merkle_tree.leaves)

\* C15: a pool's root is the all-zero sentinel exactly when its map holds no
\* item, and otherwise the root of the committed tree over the hashes of the
\* map; no leaf is left uncommitted; after a successful add the root is not
\* the sentinel and the new hash has a proof that leads to it.
C15_RootSentinel ==
    /\ (GetMerkleRoot(transaction_merkle_tree) = ZeroRoot)
         <=> (DOMAIN transactions = {})
    /\ (GetMerkleRoot(fruit_merkle_tree) = ZeroRoot) <=> (DOMAIN fruits = {})
    /\ Elements(transaction_merkle_tree.leaves) = DOMAIN transactions
    /\ Elements(fruit_merkle_tree.leaves) = DOMAIN fruits
    /\ transaction_merkle_tree.uncommitted = <<>>
    /\ fruit_merkle_tree.uncommitted = <<>>
    /\ (pres.op = "add_transaction" /\ pres.result = "Ok")
         => /\ GetMerkleRoot(transaction_merkle_tree) # ZeroRoot
            /\ Provable(transaction_merkle_tree, TxHash(pres.arg))
    /\ (pres.op = "add_fruit" /\ pres.result = "Ok")
         => /\ GetMerkleRoot(fruit_merkle_tree) # ZeroRoot
            /\ Provable(fruit_merkle_tree, FruitHash(pres.arg))

\* C16: add_fruit of a block whose type is not Fruit returns the invalid-kind
\* error, whether or not the block would fit, and leaves maps, queues, trees
\* and current_size_bytes as they were; every item of the fruit map has the
\* type Fruit.
C16_InvalidKind ==
    /\ [](\A h \in DOMAIN fruits : fruits[h].block.block_type = "Fruit")
    /\ [][ ( /\ pres'.n = pres.n + 1
             /\ pres'.op = "add_fruit"
             /\ pres'.arg.block.block_type # "Fruit" )
           => /\ pres'.result = "InvalidHash"
              /\ UNCHANGED poolContent ]_vars

\* a block of another type was refused as invalid by a pool that holds fruits
\* and has no room for it
C16_Witness ==
    /\ pres.op = "add_fruit"
    /\ pres.arg.block.block_type # "Fruit"
    /\ pres.result = "InvalidHash"
    /\ current_size_bytes + FruitSize(pres.arg) > size_limit_bytes
    /\ DOMAIN fruits # {}

\* the step is a call of cleanup_expired
IsCleanupStep ==
    /\ pres'.n = pres.n + 1
    /\ pres'.op = "cleanup_expired"

\* the time since the last cleanup is at least the smaller of the timeouts
CleanupDue ==
    DurationSince(now, last_cleanup) >= Min(transaction_timeout, fruit_timeout)

\* C21: a cleanup_expired called when less than min(transaction_timeout,
\* fruit_timeout) has passed since last_cleanup changes neither maps, queues,
\* trees, current_size_bytes nor last_cleanup; called when at least that much
\* has passed it sets last_cleanup to the current time.
C21_CleanupRateLimit ==
    [][ IsCleanupStep =>
          /\ ~CleanupDue => /\ UNCHANGED poolContent
                            /\ UNCHANGED last_cleanup
          /\ CleanupDue => last_cleanup' = now ]_vars

\* a cleanup was skipped one tick after the one before it, with a transaction
\* in the queue that is older than its timeout
C21_Witness ==
    /\ pres.op = "cleanup_expired"
    /\ pres.result = "skipped"
    /\ last_cleanup > 0
    /\ now > last_cleanup
    /\ \E h \in Elements(transaction_queue) :
         DurationSince(now, TxTimestamp(transactions[h])) > transaction_timeout

\* the age of a pooled fruit: the time since the instant its header's
\* timestamp names
AgeOfFruit(fruit) == DurationSince(now, FromSecs(fruit.block.header.timestamp))

\* C22: a cleanup_expired that runs leaves each queue in its order, without
\* the hashes it removed; it removes every transaction older than
\* transaction_timeout and keeps every younger one, and removes every fruit
\* older than fruit_timeout and keeps every younger one.
C22_CleanupByAge ==
    [][ (IsCleanupStep /\ CleanupDue) =>
          /\ transaction_queue'
               = Retain(transaction_queue, Elements(transaction_queue'))
          /\ fruit_queue' = Retain(fruit_queue, Elements(fruit_queue'))
          /\ \A h \in Elements(transaction_queue) :
               LET age == DurationSince(now, TxTimestamp(transactions[h])) IN
               /\ age > transaction_timeout
                    => h \notin Elements(transaction_queue')
               /\ age < transaction_timeout
                    => h \in Elements(transaction_queue')
          /\ \A h \in Elements(fruit_queue) :
               /\ AgeOfFruit(fruits[h]) > fruit_timeout
                    => h \notin Elements(fruit_queue')
               /\ AgeOfFruit(fruits[h]) < fruit_timeout
                    => h \in Elements(fruit_queue') ]_vars

\* C24: current_size_bytes is the sum of the serialized sizes of the items in
\* the transaction map and the fruit map.
C24_SizeCounterAccuracy == current_size_bytes = HeldSize

\* no element occurs twice in the sequence
NoDuplicates(seq) ==
    \A i, j \in 1..Len(seq) : seq[i] = seq[j] => i = j

\* C25: the committed leaves of each pool's tree are its queue, element by
\* element, so each root is the root of the tree rebuilt from the queue; and
\* no hash occurs twice in a queue or among the leaves.
C25_IncrementalIsRebuilt ==
    /\ transaction_merkle_tree.leaves = transaction_queue
    /\ fruit_merkle_tree.leaves = fruit_queue
    /\ GetMerkleRoot(transaction_merkle_tree)
         = GetMerkleRoot(TreeOfQueue(transaction_queue))
    /\ GetMerkleRoot(fruit_merkle_tree) = GetMerkleRoot(TreeOfQueue(fruit_queue))
    /\ NoDuplicates(transaction_queue)
    /\ NoDuplicates(fruit_queue)
    /\ NoDuplicates(transaction_merkle_tree.leaves)
    /\ NoDuplicates(fruit_merkle_tree.leaves)

(***************************************************************************)
(* Claims about Difficulty, checked under SpecDifficulty                   *)
(***************************************************************************)
\* the name of the function called last, "" before the first call
LastCall ==
    IF difficulty.trace = <<>> THEN ""
    ELSE difficulty.trace[Len(difficulty.trace)][1]

\* the names of the calls made so far
CallNames == [i \in 1..Len(difficulty.trace) |-> difficulty.trace[i][1]]

\* C17: the Difficulty returned by new, from_target, from_target_u128,
\* stem_difficulty or adjust_difficulty has bits with
\* MIN_DIFFICULTY_BITS <= bits <= MAX_DIFFICULTY_BITS.
C17_ClampRange ==
    ( /\ LastCall \in { "new", "from_target", "from_target_u128",
                        "stem_difficulty", "adjust_difficulty" }
      /\ difficulty.cur.kind = "difficulty" )
    => /\ BytesLeq(MIN_DIFFICULTY_BITS, difficulty.cur.value)
       /\ BytesLeq(difficulty.cur.value, MAX_DIFFICULTY_BITS)

\* bits lies between the two bounds, whichever of them is the larger
BetweenBounds(bits) ==
    /\ BytesLeq(MinBytes(MIN_DIFFICULTY_BITS, MAX_DIFFICULTY_BITS), bits)
    /\ BytesLeq(bits, MaxBytes(MIN_DIFFICULTY_BITS, MAX_DIFFICULTY_BITS))

\* out is bits, or bits with low mantissa bytes lost: the same exponent and
\* the mantissa of bits with its last byte or its last two bytes cleared
SameUpToMantissaLoss(bits, out) ==
    \/ out = bits
    \/ out = << bits[1], bits[2], bits[3], 0 >>
    \/ out = << bits[1], bits[2], 0, 0 >>

\* C18: for bits between the two bounds,
\* from_target(&new(bits).target()).bits is bits, up to the loss of mantissa
\* bytes.
C18_CompactRoundTrip ==
    ( /\ CallNames = << "new", "target", "from_target" >>
      /\ BetweenBounds(difficulty.trace[1][2]) )
    => /\ difficulty.cur.kind = "difficulty"
       /\ SameUpToMantissaLoss(difficulty.trace[1][2], difficulty.cur.value)

\* a <= b for two numbers given least significant byte first, of any lengths
LeqLE(a, b) ==
    BytesLeq(Reverse(a \o Zeros(17 - Len(a))), Reverse(b \o Zeros(17 - Len(b))))

\* C19: after adjust_difficulty(current, actual_timespan, target_timespan)
\* with target_timespan > 0 the call has returned, no shift and no
\* multiplication overflowed, and with T = current.to_target() and T' the
\* to_target() of the result, both computed without overflow,
\* T / 4 <= T' <= 4 * T.
C19_RetargetBound ==
    ( /\ LastCall = "adjust_difficulty"
      /\ difficulty.trace[Len(difficulty.trace)][2][2] > 0 )
    => /\ difficulty.cur.kind = "difficulty"
       /\ ~difficulty.overflowed
       /\ ToTargetShift(difficulty.prev.value) \in 0..127
       /\ ToTargetShift(difficulty.cur.value) \in 0..127
       /\ LeqLE(Reverse(DivBE(ToTarget(difficulty.prev.value, FALSE).value,
                              4, 0)),
                Reverse(ToTarget(difficulty.cur.value, FALSE).value))
       /\ LeqLE(Reverse(ToTarget(difficulty.cur.value, FALSE).value),
                MulLE(Reverse(ToTarget(difficulty.prev.value, FALSE).value),
                      4, 0))

\* C20: for a Difficulty that new returned, to_target() returns, its shift
\* amount is below 128, and its value is the number the sixteen bytes of
\* target() stand for, most significant byte first.
C20_ToTargetIsTarget ==
    CallNames = << "new", "to_target" >>
    => /\ difficulty.cur.kind = "u128"
       /\ ~difficulty.overflowed
       /\ ToTargetShift(difficulty.prev.value) \in 0..127
       /\ ~Target(difficulty.prev.value).panic
       /\ difficulty.cur.value = Target(difficulty.prev.value).value

=============================================================================
